---------------------------- MODULE Spec2Model ----------------------------
(***************************************************************************)
(* A model of far (src/far.py): find-and-replace over a file tree.         *)
(*                                                                         *)
(* main() checks the flags, collects the files under the path, computes    *)
(* the per-line Matches of every file, has them reviewed (interactive or   *)
(* preview) and rewrites the files.  Files are byte sequences; the text    *)
(* layer of open() (decoding, universal newlines) is modelled as Python    *)
(* on a POSIX host performs it.  Patterns are literal strings, the         *)
(* substitution is re.sub's leftmost, non-overlapping, global one.         *)
(***************************************************************************)
EXTENDS Naturals, Sequences, FiniteSets

VARIABLES
    pc,            \* where main() stands
    interactive,   \* --interactive flag
    preview,       \* --preview flag
    pattern,       \* the (literal) pattern
    replacement,   \* the replacement text
    tree,          \* the file tree under the path argument
    disk,          \* path -> bytes of every regular file
    disk0,         \* disk as it was when the run started
    files,         \* main: files (the list collect_files returned)
    matches,       \* main: matches (ordered dict: sequence of <<file, Matches>>)
    replacements,  \* main: replacements / review_matches: all_replacements
    rev_i,         \* review_matches: position in all_matches.items()
    rev_j,         \* _review_matches: position in matches
    acc,           \* _review_matches: replacements (of the current file)
    cmd,           \* _review_match: cmd, while the prompt loop is running
    displayed,     \* the <<file, line_no>> echoed by _review_match
    input_read,    \* whether input() was ever called
    app_i,         \* perform_replacement: position in replacements.items()
    opened_r,      \* files opened by _find_matches
    opened_w,      \* files opened "r+" and rewritten by _perform_replacement
    failed,        \* files whose open(file, "r+") raised
    globbed        \* whether the tree was walked

vars == <<pc, interactive, preview, pattern, replacement, tree, disk, disk0,
          files, matches, replacements, rev_i, rev_j, acc, cmd, displayed,
          input_read, app_i, opened_r, opened_w, failed, globbed>>

-----------------------------------------------------------------------------
(* Bounds *)

\* longest content of the first file, in bytes
MaxLen == 4
\* longest name of a directory entry, in characters (collector model)
MaxName == 3

-----------------------------------------------------------------------------
(* Sequences *)

BoundedSeq(S, n) == UNION {[1..k -> S] : k \in 0..n}

RECURSIVE Concat(_)
Concat(ss) == IF ss = <<>> THEN <<>> ELSE Head(ss) \o Concat(Tail(ss))

Range(s) == {s[i] : i \in DOMAIN s}

\* the first components of a sequence of pairs (the keys of an ordered dict)
Keys(d) == {d[i][1] : i \in DOMAIN d}

-----------------------------------------------------------------------------
(* Bytes and text *)

\* "FF" stands for a byte that is no valid UTF-8
Byte == {"a", "b", "\n", "\r", "FF"}

\* open(file) decodes the bytes; an invalid byte raises UnicodeDecodeError
Decodable(bytes) == \A i \in DOMAIN bytes : bytes[i] # "FF"

\* open(file) has newline=None: on reading, "\r\n" and "\r" become "\n"
RECURSIVE UniversalNewlines(_)
UniversalNewlines(s) ==
    IF s = <<>> THEN <<>>
    ELSE IF Head(s) = "\r"
         THEN IF Len(s) >= 2 /\ s[2] = "\n"
              THEN <<"\n">> \o UniversalNewlines(SubSeq(s, 3, Len(s)))
              ELSE <<"\n">> \o UniversalNewlines(Tail(s))
         ELSE <<Head(s)>> \o UniversalNewlines(Tail(s))

\* the lines of a text, each with its terminator
RECURSIVE SplitLines(_, _)
SplitLines(t, cur) ==
    IF t = <<>> THEN (IF cur = <<>> THEN <<>> ELSE <<cur>>)
    ELSE IF Head(t) = "\n"
         THEN <<Append(cur, "\n")>> \o SplitLines(Tail(t), <<>>)
         ELSE SplitLines(Tail(t), Append(cur, Head(t)))

\* f.readlines() of a file opened in text mode
readlines(bytes) == SplitLines(UniversalNewlines(bytes), <<>>)

\* f.seek(0); f.writelines(contents); f.truncate(): on a POSIX host "\n" is
\* written as "\n", and the file holds the lines and nothing after them
writelines(contents) == Concat(contents)

-----------------------------------------------------------------------------
(* pattern.sub(replacement, string=row) for a literal, non-empty pattern *)

IsPrefix(p, s) == Len(p) <= Len(s) /\ SubSeq(s, 1, Len(p)) = p

\* a bug: only the first occurrence is replaced (count=1)
RECURSIVE sub_first_only(_, _, _)
sub_first_only(p, r, s) ==
    IF s = <<>> THEN <<>>
    ELSE IF IsPrefix(p, s)
         THEN r \o SubSeq(s, Len(p) + 1, Len(s))
         ELSE <<Head(s)>> \o sub_first_only(p, r, Tail(s))

RECURSIVE sub(_, _, _)
sub(p, r, s) ==
    IF s = <<>> THEN <<>>
    ELSE IF IsPrefix(p, s)
         THEN r \o sub(p, r, SubSeq(s, Len(p) + 1, Len(s)))
         ELSE <<Head(s)>> \o sub(p, r, Tail(s))

\* re.search: the pattern occurs somewhere in s
Occurs(p, s) == \E i \in 1..Len(s) : IsPrefix(p, SubSeq(s, i, Len(s)))


-----------------------------------------------------------------------------
(* The file tree and the collector *)

\* A path is pathlib's parts: a sequence of components, each a sequence of
\* characters.  A tree is the path argument (root, is_dir) and what
\* directory.glob("**/*") yields below it, in glob's order: every entry at
\* every depth, with its path relative to the root and whether it is a file.
DotDot == <<".", ".">>

RegularFiles(t) ==
    IF t.is_dir
    THEN {t.root \o t.entries[i].rel : i \in {k \in DOMAIN t.entries : t.entries[k].is_file}}
    ELSE {t.root}

\* any(p[0] == "." and p[1] != "." for p in file.parts)
hidden(parts) == \E i \in DOMAIN parts : parts[i][1] = "." /\ parts[i][2] # "."

_collect_files_from_dir(t) ==
    LET kept == SelectSeq(t.entries,
                          LAMBDA e : ~(~e.is_file \/ hidden(t.root \o e.rel)))
    IN  [i \in DOMAIN kept |-> t.root \o kept[i].rel]

collect_files(t) == IF t.is_dir THEN _collect_files_from_dir(t) ELSE <<t.root>>

-----------------------------------------------------------------------------
(* Matching *)

\* a bug: the file is opened with errors="ignore", undecodable bytes dropped
_find_matches_ignoring_errors(bytes, p, r) ==
    LET contents == readlines(SelectSeq(bytes, LAMBDA b : b # "FF"))
        all == [i \in DOMAIN contents |->
                   [line_no |-> i - 1,
                    original_row |-> contents[i],
                    updated_row |-> sub(p, r, contents[i])]]
    IN  SelectSeq(all, LAMBDA m : m.updated_row # m.original_row)

\* _find_matches on a file holding bytes
_find_matches(bytes, p, r) ==
    IF ~Decodable(bytes) THEN <<>>
    ELSE LET contents == readlines(bytes)
             all == [i \in DOMAIN contents |->
                        [line_no |-> i - 1,
                         original_row |-> contents[i],
                         updated_row |-> sub(p, r, contents[i])]]
         IN  SelectSeq(all, LAMBDA m : m.updated_row # m.original_row)

\* find_matches: the ordered dict of the files that have a Match
find_matches(fs, d, p, r) ==
    LET all == [i \in DOMAIN fs |-> <<fs[i], _find_matches(d[fs[i]], p, r)>>]
    IN  SelectSeq(all, LAMBDA e : e[2] # <<>>)

-----------------------------------------------------------------------------
(* Applying *)

\* _perform_replacement: the bytes of the file after the rewrite
_perform_replacement(bytes, ms) ==
    LET contents == readlines(bytes)
        new == [i \in DOMAIN contents |->
                   IF \E k \in DOMAIN ms : ms[k].line_no = i - 1
                   THEN ms[CHOOSE k \in DOMAIN ms : ms[k].line_no = i - 1].updated_row
                   ELSE contents[i]]
    IN  writelines(new)

-----------------------------------------------------------------------------
(* Review commands *)

NoCmd == <<"None">>

\* what the user may type at the prompt
Cmds == {<<>>, <<"y">>, <<"n">>, <<"Y">>, <<"N">>, <<"x">>}

LowerChar(c) == CASE c = "Y" -> "y" [] c = "N" -> "n" [] OTHER -> c

\* a bug: the input is compared as typed
lower_missing(s) == s

\* str.lower()
lower(s) == [i \in DOMAIN s |-> LowerChar(s[i])]


-----------------------------------------------------------------------------
(* The runs that are checked *)

\* far PATTERN REPLACEMENT d, where d holds f, s/g and the hidden .h
MainTree ==
    [root |-> << <<"d">> >>,
     is_dir |-> TRUE,
     entries |-> << [rel |-> << <<"f">> >>, is_file |-> TRUE],
                    [rel |-> << <<".", "h">> >>, is_file |-> TRUE],
                    [rel |-> << <<"s">> >>, is_file |-> FALSE],
                    [rel |-> << <<"s">>, <<"g">> >>, is_file |-> TRUE] >>]

File1 == << <<"d">>, <<"f">> >>
File2 == << <<"d">>, <<"s">>, <<"g">> >>

\* the second file: one with a Match, one that cannot be decoded, one
\* without a Match
File2Contents == {<<"a", "\n">>, <<"a", "FF">>, <<"b">>}

\* <<pattern, replacement>>
Pairs == { << <<"a">>, <<"b">> >>,
           << <<"a", "a">>, <<"a">> >>,
           << <<"a", "b">>, <<>> >>,
           << <<"a">>, <<>> >>,
           << <<"a", "a">>, <<"b">> >> }

\* the values every run starts with, whatever the tree
Start ==
    /\ files = <<>>
    /\ matches = <<>>
    /\ replacements = <<>>
    /\ rev_i = 1
    /\ rev_j = 1
    /\ acc = <<>>
    /\ cmd = NoCmd
    /\ displayed = {}
    /\ input_read = FALSE
    /\ app_i = 1
    /\ opened_r = {}
    /\ opened_w = {}
    /\ failed = {}
    /\ globbed = FALSE

Init ==
    /\ pc = "main"
    /\ interactive \in BOOLEAN
    /\ preview \in BOOLEAN
    /\ \E pr \in Pairs : pattern = pr[1] /\ replacement = pr[2]
    /\ tree = MainTree
    /\ \E c1 \in BoundedSeq(Byte, MaxLen), c2 \in File2Contents :
           disk = [f \in RegularFiles(MainTree) |->
                      IF f = File1 THEN c1
                      ELSE IF f = File2 THEN c2
                      ELSE <<"a", "\n">>]
    /\ disk0 = disk
    /\ Start

-----------------------------------------------------------------------------
(* main *)

\* a bug: the assertion is missing
no_flags_check == TRUE

\* assert not (interactive and preview)
flags_ok == ~(interactive /\ preview)

\* a bug: the apply stage runs whatever the flags
always_apply == TRUE

\* if not preview: perform_replacement(replacements)
runs_perform_replacement == ~preview

\* main, up to the call of collect_files
Main ==
    /\ pc = "main"
    /\ pc' = IF flags_ok THEN "collect" ELSE "usage_error"
    /\ UNCHANGED <<interactive, preview, pattern, replacement, tree, disk,
                   disk0, files, matches, replacements, rev_i, rev_j, acc,
                   cmd, displayed, input_read, app_i, opened_r, opened_w,
                   failed, globbed>>

\* files = collect_files(path)
CollectFiles ==
    /\ pc = "collect"
    /\ files' = collect_files(tree)
    /\ globbed' = tree.is_dir
    /\ pc' = "find"
    /\ UNCHANGED <<interactive, preview, pattern, replacement, tree, disk,
                   disk0, matches, replacements, rev_i, rev_j, acc, cmd,
                   displayed, input_read, app_i, opened_r, opened_w, failed>>

\* where main goes once the review is over
AfterReview == IF runs_perform_replacement THEN "apply" ELSE "done"

\* matches = find_matches(files, r, replacement), and main up to the first
\* prompt (interactive), the first Match shown (preview) or the apply stage
FindMatches ==
    /\ pc = "find"
    /\ matches' = find_matches(files, disk, pattern, replacement)
    /\ opened_r' = Range(files)
    /\ IF interactive \/ preview
       THEN /\ replacements' = <<>>
            /\ IF matches' = <<>>
               THEN pc' = AfterReview /\ displayed' = displayed
               ELSE /\ pc' = "review"
                    /\ displayed' = {<<matches'[1][1], matches'[1][2][1].line_no>>}
       ELSE /\ replacements' = matches'
            /\ pc' = AfterReview
            /\ displayed' = displayed
    /\ UNCHANGED <<interactive, preview, pattern, replacement, tree, disk,
                   disk0, files, rev_i, rev_j, acc, cmd, input_read, app_i,
                   opened_w, failed, globbed>>


-----------------------------------------------------------------------------
(* Review *)

\* the Match _review_match is deciding
CurFile == matches[rev_i][1]
CurList == matches[rev_i][2]
CurMatch == CurList[rev_j]

\* _review_matches and review_matches once _review_match returned replace:
\* the Match is kept or dropped, and the next Match, if any, is echoed
Decide(replace) ==
    LET acc2 == IF replace THEN Append(acc, CurMatch) ELSE acc
    IN  IF rev_j < Len(CurList)
        THEN /\ acc' = acc2
             /\ rev_j' = rev_j + 1
             /\ displayed' = displayed \cup {<<CurFile, CurList[rev_j + 1].line_no>>}
             /\ pc' = "review"
             /\ UNCHANGED <<rev_i, replacements>>
        ELSE /\ replacements' = Append(replacements, <<CurFile, acc2>>)
             /\ acc' = <<>>
             /\ rev_j' = 1
             /\ rev_i' = rev_i + 1
             /\ IF rev_i < Len(matches)
                THEN /\ pc' = "review"
                     /\ displayed' = displayed \cup
                            {<<matches[rev_i + 1][1], matches[rev_i + 1][2][1].line_no>>}
                ELSE /\ pc' = AfterReview
                     /\ displayed' = displayed

\* one pass of the loop `while replace is None`: input() returned typed
ReviewPrompt(typed) ==
    /\ pc = "review"
    /\ ~preview
    /\ input_read' = TRUE
    /\ LET c == lower(typed)
       IN  IF c \in {<<>>, <<"y">>}
           THEN Decide(TRUE) /\ cmd' = NoCmd
           ELSE IF c = <<"n">>
                THEN Decide(FALSE) /\ cmd' = NoCmd
                ELSE /\ cmd' = c
                     /\ UNCHANGED <<pc, replacements, rev_i, rev_j, acc, displayed>>
    /\ UNCHANGED <<interactive, preview, pattern, replacement, tree, disk,
                   disk0, files, matches, app_i, opened_r, opened_w, failed,
                   globbed>>

\* _review_match with preview_only: replace = False, the loop is not entered
ReviewPreview ==
    /\ pc = "review"
    /\ preview
    /\ Decide(FALSE)
    /\ UNCHANGED <<interactive, preview, pattern, replacement, tree, disk,
                   disk0, files, matches, cmd, input_read, app_i, opened_r,
                   opened_w, failed, globbed>>

-----------------------------------------------------------------------------
(* perform_replacement *)

\* one pass of the loop over replacements.items(): the file is rewritten
PerformReplacementFile ==
    /\ pc = "apply"
    /\ app_i <= Len(replacements)
    /\ LET file == replacements[app_i][1]
           ms == replacements[app_i][2]
       IN  /\ disk' = [disk EXCEPT ![file] = _perform_replacement(disk[file], ms)]
           /\ opened_w' = opened_w \cup {file}
    /\ app_i' = app_i + 1
    /\ UNCHANGED <<pc, interactive, preview, pattern, replacement, tree, disk0,
                   files, matches, replacements, rev_i, rev_j, acc, cmd,
                   displayed, input_read, opened_r, failed, globbed>>

\* open(file, "r+") raises (the file is read-only): nothing catches the
\* OSError, which leaves perform_replacement and main
PerformReplacementOpenError ==
    /\ pc = "apply"
    /\ app_i <= Len(replacements)
    /\ failed' = failed \cup {replacements[app_i][1]}
    /\ pc' = "io_error"
    /\ UNCHANGED <<interactive, preview, pattern, replacement, tree, disk,
                   disk0, files, matches, replacements, rev_i, rev_j, acc, cmd,
                   displayed, input_read, app_i, opened_r, opened_w, globbed>>

\* the loop is over: the tally is printed and main returns
PerformReplacementReport ==
    /\ pc = "apply"
    /\ app_i > Len(replacements)
    /\ pc' = "done"
    /\ UNCHANGED <<interactive, preview, pattern, replacement, tree, disk,
                   disk0, files, matches, replacements, rev_i, rev_j, acc, cmd,
                   displayed, input_read, app_i, opened_r, opened_w, failed,
                   globbed>>

-----------------------------------------------------------------------------
(* Specifications *)

Next ==
    \/ Main
    \/ CollectFiles
    \/ FindMatches
    \/ \E typed \in Cmds : ReviewPrompt(typed)
    \/ ReviewPreview
    \/ PerformReplacementFile
    \/ PerformReplacementOpenError
    \/ PerformReplacementReport

Spec == Init /\ [][Next]_vars

\* The collector on its own: main stands before collect_files(path), and the
\* tree under the path argument is any tree of up to two entries.
NameChar == {".", "a"}

\* what a directory entry may be called ("." and ".." are no entries)
EntryNames ==
    {n \in BoundedSeq(NameChar, MaxName) : n # <<>> /\ n # <<".">> /\ n # DotDot}

\* Path(path).parts for ".", "..", "a" and ".a"
Roots == { <<>>, <<DotDot>>, << <<"a">> >>, << <<".", "a">> >> }

Trees ==
    {[root |-> r, is_dir |-> TRUE,
      entries |-> << [rel |-> <<n>>, is_file |-> k] >>] :
        r \in Roots, n \in EntryNames, k \in BOOLEAN}
    \cup
    {[root |-> r, is_dir |-> TRUE,
      entries |-> << [rel |-> <<n>>, is_file |-> FALSE],
                     [rel |-> <<n, m>>, is_file |-> k] >>] :
        r \in Roots, n \in EntryNames, m \in EntryNames, k \in BOOLEAN}
    \cup
    {[root |-> <<n>>, is_dir |-> FALSE, entries |-> <<>>] : n \in EntryNames}

InitCollect ==
    /\ pc = "collect"
    /\ interactive = FALSE
    /\ preview = FALSE
    /\ pattern = <<"a">>
    /\ replacement = <<"b">>
    /\ tree \in Trees
    /\ disk = [f \in RegularFiles(tree) |-> <<>>]
    /\ disk0 = disk
    /\ Start

NextCollect == CollectFiles

SpecCollect == InitCollect /\ [][NextCollect]_vars


-----------------------------------------------------------------------------
(* What the properties speak of *)

\* bulk mode: neither flag
Bulk == ~interactive /\ ~preview

\* the run is over, whether main returned or an exception left it
Terminated == pc \in {"done", "usage_error", "io_error"}

\* find_matches has returned
Matched == pc \in {"review", "apply", "done", "io_error"}

RECURSIVE SumLens(_)
SumLens(d) == IF d = <<>> THEN 0 ELSE Len(Head(d)[2]) + SumLens(Tail(d))

\* the Matches decided so far, and those of them that were accepted
NReviewed == SumLens(SubSeq(matches, 1, rev_i - 1)) + (rev_j - 1)
NAccepted == SumLens(replacements) + Len(acc)

AcceptStep == NReviewed' = NReviewed + 1 /\ NAccepted' = NAccepted + 1
RejectStep == NReviewed' = NReviewed + 1 /\ NAccepted' = NAccepted
NoDecision == NReviewed' = NReviewed /\ NAccepted' = NAccepted /\ pc' = "review"

\* the lines of a file as they stand on disk: each ends with its own
\* terminator ("\n", "\r\n" or "\r"), untranslated
RECURSIVE RawLines(_, _)
RawLines(b, cur) ==
    IF b = <<>> THEN (IF cur = <<>> THEN <<>> ELSE <<cur>>)
    ELSE IF Head(b) = "\n"
         THEN <<Append(cur, "\n")>> \o RawLines(Tail(b), <<>>)
         ELSE IF Head(b) = "\r"
              THEN IF Len(b) >= 2 /\ b[2] = "\n"
                   THEN <<cur \o <<"\r", "\n">> >> \o RawLines(SubSeq(b, 3, Len(b)), <<>>)
                   ELSE <<Append(cur, "\r")>> \o RawLines(Tail(b), <<>>)
              ELSE RawLines(Tail(b), Append(cur, Head(b)))

\* a file with the lines of ms written over the lines of bytes, the other
\* lines kept as they are on disk
WithLines(bytes, ms) ==
    LET orig == RawLines(bytes, <<>>)
    IN  Concat([k \in DOMAIN orig |->
                   IF \E j \in DOMAIN ms : ms[j].line_no = k - 1
                   THEN ms[CHOOSE j \in DOMAIN ms : ms[j].line_no = k - 1].updated_row
                   ELSE orig[k]])

\* some line of the text is changed by the substitution
HasMatch(bytes) ==
    \E l \in Range(readlines(bytes)) : sub(pattern, replacement, l) # l

-----------------------------------------------------------------------------
(* Properties *)

\* C1: in preview mode no file is ever modified: the apply stage is never
\* run, and when the run is over every Match was displayed and rejected and
\* every file holds what it held at the start.
PreviewNeverModifies ==
    (preview /\ ~interactive) =>
        /\ disk = disk0
        /\ opened_w = {}
        /\ pc \notin {"apply", "io_error"}
        /\ pc = "done" =>
              /\ \A i \in DOMAIN matches : \A j \in DOMAIN matches[i][2] :
                     <<matches[i][1], matches[i][2][j].line_no>> \in displayed
              /\ Keys(replacements) = Keys(matches)
              /\ \A i \in DOMAIN replacements : replacements[i][2] = <<>>

\* C1 witness: a preview run that ended after showing the Matches of both files
PreviewRunShowedMatches ==
    /\ preview /\ ~interactive /\ pc = "done"
    /\ Len(matches) = 2
    /\ Cardinality(displayed) >= 3

\* C2: after the apply stage, every file of the accepted set holds the
\* updated_row of each accepted Match at its line and, at every other line,
\* the very bytes it held before; with no Match accepted it is unchanged.
AppliedExactlyTheAccepted ==
    pc = "done" =>
        \A i \in DOMAIN replacements :
            disk[replacements[i][1]] =
                WithLines(disk0[replacements[i][1]], replacements[i][2])

\* C3: a bulk run leaves every file it read with the content one global
\* substitution over the whole original content gives.
BulkEqualsGlobalSubstitution ==
    (pc = "done" /\ Bulk) =>
        \A f \in Range(files) :
            Decodable(disk0[f]) => disk[f] = sub(pattern, replacement, disk0[f])

BothFlagsNoFileIO ==
    (interactive /\ preview) =>
        /\ pc \in {"main", "usage_error"}
        /\ files = <<>>
        /\ ~globbed
        /\ opened_r = {}
        /\ opened_w = {}
        /\ disk = disk0

\* C5 witness: the usage error was raised
UsageErrorRaised == pc = "usage_error" /\ interactive /\ preview

\* C6: when the run is over, every file of the accepted set other than
\* those that could not be opened was rewritten.
OpenFailureSparesOtherFiles ==
    Terminated => \A f \in Keys(replacements) \ failed : f \in opened_w

\* C7 as stated: empty input or y accepts, n rejects, any other input
\* decides nothing; the loop ends only on a recognized command; in preview
\* mode no input is read.
ReviewDecisionsAsTyped ==
    /\ [][\A typed \in Cmds : ReviewPrompt(typed) =>
              IF typed \in {<<>>, <<"y">>} THEN AcceptStep
              ELSE IF typed = <<"n">> THEN RejectStep
              ELSE NoDecision]_vars
    /\ [][(pc = "review" /\ ~preview /\ NReviewed' # NReviewed) =>
              \E typed \in {<<>>, <<"y">>, <<"n">>} : ReviewPrompt(typed)]_vars
    /\ [](preview => ~input_read)

\* C7 amended: the input is taken without regard to case: empty input, y or
\* Y accepts, n or N rejects, any other input decides nothing; the loop ends
\* only on one of these commands; in preview mode no input is read.
ReviewDecisionsIgnoringCase ==
    /\ [][\A typed \in Cmds : ReviewPrompt(typed) =>
              IF typed \in {<<>>, <<"y">>, <<"Y">>} THEN AcceptStep
              ELSE IF typed \in {<<"n">>, <<"N">>} THEN RejectStep
              ELSE NoDecision]_vars
    /\ [][(pc = "review" /\ ~preview /\ NReviewed' # NReviewed) =>
              \E typed \in {<<>>, <<"y">>, <<"Y">>, <<"n">>, <<"N">>} :
                  ReviewPrompt(typed)]_vars
    /\ [](preview => ~input_read)

\* C7 witness: an interactive run that ended with a Match accepted and a
\* Match rejected
InteractiveRunDecided ==
    /\ interactive /\ pc = "done" /\ input_read
    /\ NAccepted >= 1
    /\ NAccepted < SumLens(matches)

\* C8 (collector): on a directory, the files collected are the regular files
\* none of whose path components starts with "." (".." is the parent
\* directory and names nothing hidden).
CollectSkipsEveryDotName ==
    (pc = "find" /\ tree.is_dir) =>
        Range(files) =
            {p \in RegularFiles(tree) :
                \A i \in DOMAIN p : p[i][1] = "." => p[i] = DotDot}

\* C9: a file that cannot be decoded has no Match, is not in the match set,
\* is never written, and the other files are matched all the same.
UndecodableFileSkipped ==
    Matched =>
        \A f \in Range(files) :
            IF Decodable(disk0[f])
            THEN HasMatch(disk0[f]) => f \in Keys(matches)
            ELSE /\ f \in opened_r
                 /\ f \notin Keys(matches)
                 /\ f \notin Keys(replacements)
                 /\ f \notin opened_w
                 /\ disk[f] = disk0[f]

\* C9 witness: the first file could not be decoded and the second was
\* matched and rewritten
SkippedThenRewrote ==
    /\ pc = "done"
    /\ ~Decodable(disk0[File1])
    /\ File1 \in opened_r
    /\ File2 \in opened_w

\* C10: a file is opened for writing only if one of its Matches was accepted.
WrittenOnlyWithAcceptedMatch ==
    \A f \in opened_w :
        \E i \in DOMAIN replacements :
            replacements[i][1] = f /\ replacements[i][2] # <<>>

=============================================================================
